---- MODULE Spec2Model ----
(***************************************************************************)
(* useRefCallback (src/useRefCallback.ts): a React hook that hands out a   *)
(* ref callback.  The callback runs an effect when a node is attached and  *)
(* the cleanup the effect returned when the node is detached.  The         *)
(* cleanups are kept in a Map held in a useRef cell, keyed by node id.     *)
(*                                                                         *)
(* The model has one tracker instance (one call site of the hook).  Its    *)
(* steps are renders of the component (the hook is called again with an    *)
(* effect and a dependency list), calls of a handed-out ref callback by    *)
(* the host, and calls through the README's MultiNode wrapper, which       *)
(* passes uid() as the node id.  The effect and the cleanups are the       *)
(* caller's code: what an effect returns and whether a function throws is  *)
(* chosen nondeterministically.                                            *)
(***************************************************************************)
EXTENDS Integers, Sequences, FiniteSets, TLC

\* Bounds of the model.
MaxRenders == 1
MaxUid == 2

\* Values of the model.
Null == "null"
None == "none"
Omitted == "omitted"
Nodes == {"nodeA", "nodeB"}
Effects == {"e1", "e2"}
DepValues == {"d1", "d2"}
Cleanups == {"c1", "c2"}
NamedIds == {"single", "x"}
UidNames == <<"uid1", "uid2", "uid3", "uid4">>
UidIds == {UidNames[i] : i \in 1..MaxUid}
Ids == NamedIds \cup UidIds
DepLists == {<<d>> : d \in DepValues}
Callbacks == 1..(MaxRenders + 1)

\* What a call of the effect can do: throw, return undefined, return some other
\* value that is not a function, or return a cleanup function.
EffectResults == {"throw", "undefined", "other"} \cup Cleanups

VARIABLES
    cleanupsMap,  \* ref cell -> (node id -> cleanup function or None)
    memo,         \* useCallback's hook state: [cb, deps]
    props,        \* the arguments of the latest render: [effect, deps]
    nextUid,      \* uid()'s counter
    last,         \* what the latest step was given and what it invoked
    pend,         \* key -> the attach under it that returned a cleanup, no detach since
    ranSince,     \* key -> the function of pend[key] has been invoked since that attach
    owed,         \* key -> cleanup of the latest attach that returned one, until a
                  \*        detach under the key returns normally
    consumed,     \* pend[key] as it was when the latest step, a call under key, began
    superseded,   \* cleanups whose attach was followed by an attach under the same key
    dropped,      \* those replaced by another function and registered nowhere else
    scenX,        \* progress of attach(nodeA, "x"), attach(nodeB, "x"), attach(null, "x")
    scenDeps,     \* progress of a change of dependencies under an attached node
    videoPend,    \* cleanup returned at the latest attach through the README's wrapper
    trail,        \* key -> how the latest call under it ended; and, for the key of
                  \*        the latest call, how the call before it ended
    once,         \* the cleanups returned and invoked so far
    host          \* key -> the node a well-behaved host has attached under it

prog == <<cleanupsMap, memo, props, nextUid>>
hist == <<pend, ranSince, owed, consumed>>
seqs == <<superseded, dropped>>
more == <<trail, once, host>>
vars == <<prog, last, hist, seqs, scenX, scenDeps, videoPend, more>>

----------------------------------------------------------------------------
\* The hook (src/useRefCallback.ts)

\* Mutant: a map per callback identity (new Map() kept by the closure).
RefCellPerCallback(cb) == cb

\* const cleanupsMap = useRef(new Map()): every render, and so every callback
\* identity, gets the same cell.
RefCell(cb) == 0

\* Mutant: the dependency array without the effect.
DepsArrayDepsOnly(effect, deps) == deps

\* useCallback's dependency array: [effect, ...deps].
DepsArray(effect, deps) == <<effect>> \o deps

\* React's comparison of two dependency arrays: element by element, by identity.
AreHookInputsEqual(a, b) ==
    /\ Len(a) = Len(b)
    /\ \A i \in 1..Len(a) : a[i] = b[i]

\* Mutant: no memoization, every render hands out its own function.
UseCallbackNoMemo(fresh, depsArray) == fresh

\* useCallback(fn, deps): the memoized callback when the dependency array is
\* unchanged, else the function created by this render.
UseCallback(fresh, depsArray) ==
    IF AreHookInputsEqual(depsArray, memo.deps) THEN memo.cb ELSE fresh

\* Mutant: another default key.
NodeIdDefaultX(idArg) == IF idArg = Omitted THEN "x" ELSE idArg

\* nodeId = 'single': the default of the parameter.
NodeId(idArg) == IF idArg = Omitted THEN "single" ELSE idArg

\* typeof cleanupCallback === 'function'
IsFunction(v) == v \in Cleanups

\* Mutant: an effect that returns no function clears the entry.
AttachBranchClears(map, nodeId, result) ==
    [map EXCEPT ![nodeId] = IF IsFunction(result) THEN result ELSE None]

\* Mutant: an entry already stored is kept.
AttachBranchKeepsFirst(map, nodeId, result) ==
    IF IsFunction(result) /\ map[nodeId] = None
    THEN [map EXCEPT ![nodeId] = result]
    ELSE map

\* The map after the attach branch; result is what effect(node) did.  When it
\* threw, the test and the set are not reached.
AttachBranch(map, nodeId, result) ==
    IF result /= "throw" /\ IsFunction(result) THEN [map EXCEPT ![nodeId] = result] ELSE map

\* Mutant: the effect is called once for the test and once for the value stored.
AttachInvokesTwice(node) ==
    <<[op |-> "effect", fn |-> "effect", arg |-> node],
      [op |-> "effect", fn |-> "effect", arg |-> node]>>

\* What the attach branch invokes: effect(node).
AttachInvokes(node) == <<[op |-> "effect", fn |-> "effect", arg |-> node]>>

\* const currNodeCleanup = cleanupsMap.current.get(nodeId)
CurrNodeCleanup(map, nodeId) == map[nodeId]

\* Mutant: the entry is never deleted.
DetachBranchKeeps(map, nodeId, thrown) == map

\* Mutant: the entry is deleted before the cleanup is called.
DetachBranchDeletesFirst(map, nodeId, thrown) == [map EXCEPT ![nodeId] = None]

\* Mutant: clear() instead of delete(nodeId).
DetachBranchClearsAll(map, nodeId, thrown) ==
    IF map[nodeId] /= None /\ ~thrown THEN [i \in DOMAIN map |-> None] ELSE map

\* The map after the detach branch; thrown says whether the cleanup threw.
DetachBranch(map, nodeId, thrown) ==
    IF CurrNodeCleanup(map, nodeId) /= None /\ ~thrown
    THEN [map EXCEPT ![nodeId] = None]
    ELSE map

\* Mutant: the cleanup is called without the test, and calling undefined throws.
DetachThrowsOnMissing(map, nodeId) ==
    IF map[nodeId] /= None THEN BOOLEAN ELSE {TRUE}

\* Whether the detach branch can throw: only the cleanup it invokes can.
DetachThrows(map, nodeId) ==
    IF CurrNodeCleanup(map, nodeId) /= None THEN BOOLEAN ELSE {FALSE}

\* What the detach branch invokes: currNodeCleanup(), if there is one.
DetachInvokes(map, nodeId) ==
    IF CurrNodeCleanup(map, nodeId) /= None
    THEN <<[op |-> "cleanup", fn |-> CurrNodeCleanup(map, nodeId), arg |-> None]>>
    ELSE <<>>

\* The exceptions of the caller's code.
EffectError == "effectError"
CleanupError == "cleanupError"

\* Mutant: the callback catches what the effect or the cleanup throws.
EscapesCaught(exc) == None

\* What leaves the callback when the effect or the cleanup threw exc (None: it
\* returned): the callback has no try, so exc itself.
Escapes(exc) == exc

EmptyMap == [i \in Ids |-> None]

NoStep == [kind |-> "init", node |-> None, idArg |-> None, wrapped |-> FALSE,
           result |-> None, threw |-> None, escaped |-> None, thrown |-> FALSE,
           invoked |-> <<>>, prevProps |-> None, prevCb |-> 0]

\* The ref callback: (node, nodeId = 'single') => { ... }.  The result of the
\* effect and whether the cleanup throws are the caller's.
RefCallback(cb, node, idArg, wrapped) ==
    LET cell == RefCell(cb)
        map == cleanupsMap[cell]
        nodeId == NodeId(idArg)
    IN  IF node /= Null
        THEN \E result \in EffectResults :
                LET exc == IF result = "throw" THEN EffectError ELSE None
                IN  /\ cleanupsMap' = [cleanupsMap EXCEPT ![cell] =
                           AttachBranch(map, nodeId, result)]
                    /\ last' = [NoStep EXCEPT !.kind = "attach", !.node = node,
                                   !.idArg = idArg, !.wrapped = wrapped,
                                   !.result = result, !.threw = exc,
                                   !.escaped = Escapes(exc),
                                   !.thrown = (Escapes(exc) /= None),
                                   !.invoked = AttachInvokes(node)]
        ELSE \E thrown \in DetachThrows(map, nodeId) :
                LET exc == IF thrown THEN CleanupError ELSE None
                IN  /\ cleanupsMap' = [cleanupsMap EXCEPT ![cell] =
                           DetachBranch(map, nodeId, thrown)]
                    /\ last' = [NoStep EXCEPT !.kind = "detach", !.node = node,
                                   !.idArg = idArg, !.wrapped = wrapped,
                                   !.threw = exc, !.escaped = Escapes(exc),
                                   !.thrown = (Escapes(exc) /= None),
                                   !.invoked = DetachInvokes(map, nodeId)]

\* The callback identities handed out so far; memo.cb is the latest.
Handed == 1..memo.cb

\* The component renders again: useRefCallback(effect, deps).
Render(effect, deps) ==
    LET cb == UseCallback(memo.cb + 1, DepsArray(effect, deps))
    IN  /\ cb \in Callbacks
        /\ memo' = IF cb = memo.cb THEN memo
                   ELSE [cb |-> cb, deps |-> DepsArray(effect, deps)]
        /\ props' = [effect |-> effect, deps |-> deps]
        /\ last' = [NoStep EXCEPT !.kind = "render", !.prevProps = props,
                       !.prevCb = memo.cb]
        /\ UNCHANGED <<cleanupsMap, nextUid>>

\* The host calls a ref callback it was handed: cb(node) or cb(node, nodeId).
Call(cb, node, idArg) ==
    /\ RefCallback(cb, node, idArg, FALSE)
    /\ UNCHANGED <<memo, props, nextUid>>

\* The registry of the tracker instance: the map the handed-out callback uses.
Registry == cleanupsMap[RefCell(memo.cb)]

----------------------------------------------------------------------------
\* The README's MultiNode usage (src/unnamed/part_000)

\* uid(): an identifier no earlier call returned.
Uid == UidNames[nextUid]

\* ref={(node) => setDynamicVideo(node, uid())}
WrappedRef(cb, node) ==
    /\ nextUid <= MaxUid
    /\ RefCallback(cb, node, Uid, TRUE)
    /\ nextUid' = nextUid + 1
    /\ UNCHANGED <<memo, props>>

----------------------------------------------------------------------------
\* History variables.  They are kept by what the caller did (the id argument as
\* the caller means it, what the effect returned, whether the call threw) and by
\* what the call invoked, never by reading the map.

\* The key the caller means by an id argument.
KeyOf(idArg) == IF idArg = Omitted THEN "single" ELSE idArg

NoPend == [fn |-> None, idArg |-> None]

\* The cleanup functions a step invoked.
CleanupsInvoked(step) ==
    {step.invoked[i].fn : i \in {j \in 1..Len(step.invoked) : step.invoked[j].op = "cleanup"}}

RanCleanup(c) == <<[op |-> "cleanup", fn |-> c, arg |-> None]>>
RanEffect(node) == <<[op |-> "effect", fn |-> "effect", arg |-> node]>>

History ==
    LET key == KeyOf(last'.idArg)
        isFn == last'.result \in Cleanups
    IN  /\ consumed' = pend[key]
        /\ IF last'.kind = "attach"
           THEN /\ pend' = [pend EXCEPT ![key] =
                       IF isFn THEN [fn |-> last'.result, idArg |-> last'.idArg] ELSE NoPend]
                /\ ranSince' = [ranSince EXCEPT ![key] = FALSE]
                /\ owed' = IF isFn THEN [owed EXCEPT ![key] = last'.result] ELSE owed
           ELSE /\ pend' = [pend EXCEPT ![key] = NoPend]
                /\ ranSince' = [k \in NamedIds |->
                       IF k = key THEN FALSE
                       ELSE ranSince[k] \/ pend[k].fn \in CleanupsInvoked(last')]
                /\ owed' = IF last'.thrown THEN owed ELSE [owed EXCEPT ![key] = None]

\* A second attach under a key whose attach returned c1, no detach in between.
Supersedes ==
    LET key == KeyOf(last'.idArg)
        c1 == pend[key].fn
        r == last'.result
    IN  IF last'.kind = "attach"
        THEN /\ superseded' = IF c1 /= None THEN superseded \cup {c1} ELSE superseded
             /\ dropped' =
                    (dropped \cup
                       IF /\ c1 /= None
                          /\ r \in Cleanups
                          /\ r /= c1
                          /\ \A k \in NamedIds \ {key} : owed[k] /= c1
                       THEN {c1} ELSE {}) \ {r}
        ELSE UNCHANGED seqs

\* attach(nodeA, "x"), attach(nodeB, "x"), attach(null, "x") from an empty
\* registry, each effect returning a cleanup and the cleanup returning normally;
\* log collects the cleanups run since the first of the three calls.
IdleX == [phase |-> 0, cA |-> None, cB |-> None, log |-> <<>>]

RanIn(step) ==
    LET cs == SelectSeq(step.invoked, LAMBDA e : e.op = "cleanup")
    IN  [i \in 1..Len(cs) |-> cs[i].fn]

ScenarioX(node, idArg) ==
    LET isFn == last'.result \in Cleanups
    IN  scenX' =
            IF scenX.phase = 1 /\ node = "nodeB" /\ idArg = "x" /\ isFn
            THEN [scenX EXCEPT !.phase = 2, !.cB = last'.result,
                               !.log = scenX.log \o RanIn(last')]
            ELSE IF scenX.phase = 2 /\ node = Null /\ idArg = "x" /\ ~last'.thrown
            THEN [scenX EXCEPT !.phase = 3, !.log = scenX.log \o RanIn(last')]
            ELSE IF /\ node = "nodeA" /\ idArg = "x" /\ isFn
                    /\ \A k \in Ids : Registry[k] = None
            THEN [phase |-> 1, cA |-> last'.result, cB |-> None, log |-> <<>>]
            ELSE IdleX

\* Single-node mode.  pendFn, pendCb: the cleanup pending under "single" and the
\* callback identity it was registered through; took, tookCb, tookBy: that pair
\* as the latest detach found it, and the identity the detach went through.
\* phase: 1 a node is attached through the current callback with cleanup c
\* pending, 2 a render has produced a new callback identity, 3 the host has
\* called the old identity with null, 4 and the new one with the node.
IdleDeps == [phase |-> 0, c |-> None, oldCb |-> 0, node |-> None, log |-> <<>>,
             thrown |-> FALSE, result |-> None,
             pendFn |-> None, pendCb |-> 0, took |-> None, tookCb |-> 0, tookBy |-> 0]

ScenarioDepsCall(cb, node) ==
    LET isFn == last'.result \in Cleanups
        track == [scenDeps EXCEPT
                    !.pendFn = IF node /= Null /\ isFn THEN last'.result ELSE None,
                    !.pendCb = IF node /= Null /\ isFn THEN cb ELSE 0,
                    !.took = IF node = Null THEN scenDeps.pendFn ELSE None,
                    !.tookCb = IF node = Null THEN scenDeps.pendCb ELSE 0,
                    !.tookBy = IF node = Null THEN cb ELSE 0]
        idle == [track EXCEPT !.phase = 0, !.c = None, !.oldCb = 0, !.node = None,
                              !.log = <<>>, !.thrown = FALSE, !.result = None]
    IN  scenDeps' =
            IF scenDeps.phase = 2 /\ cb = scenDeps.oldCb /\ node = Null
            THEN [track EXCEPT !.phase = 3, !.log = last'.invoked, !.thrown = last'.thrown]
            ELSE IF /\ scenDeps.phase = 3 /\ cb = memo.cb /\ cb /= scenDeps.oldCb
                    /\ node = scenDeps.node
            THEN [track EXCEPT !.phase = 4, !.log = scenDeps.log \o last'.invoked,
                               !.result = last'.result]
            ELSE IF node /= Null /\ cb = memo.cb /\ isFn
            THEN [idle EXCEPT !.phase = 1, !.c = last'.result, !.oldCb = cb, !.node = node]
            ELSE idle

ScenarioDepsRender ==
    scenDeps' =
        IF scenDeps.phase = 1 /\ memo'.cb /= memo.cb THEN [scenDeps EXCEPT !.phase = 2]
        ELSE IF scenDeps.phase \in {0, 1, 2} THEN scenDeps
        ELSE [scenDeps EXCEPT !.phase = 0, !.c = None, !.oldCb = 0, !.node = None,
                              !.log = <<>>, !.thrown = FALSE, !.result = None]

\* The cleanup of the node attached through the wrapper, until the wrapper is
\* called with null.
Video(node) ==
    videoPend' = IF node /= Null /\ last'.result \in Cleanups THEN last'.result ELSE None

\* How the calls under each key ended.  what: "stored" an attach whose effect
\* returned a cleanup, "nothing" an attach whose effect returned no function,
\* "effectThrew" an attach whose effect threw, "detached" a detach that
\* returned, "cleanupThrew" a detach whose cleanup threw; fn: the cleanup that
\* call was given by the effect, or invoked.
NoEnd == [what |-> "none", fn |-> None]

IdleTrail == [at |-> [k \in NamedIds |-> NoEnd], was |-> NoEnd]

Trail ==
    LET key == KeyOf(last'.idArg)
        ran == RanIn(last')
        end == IF last'.kind = "attach"
               THEN IF last'.result \in Cleanups
                    THEN [what |-> "stored", fn |-> last'.result]
                    ELSE IF last'.result = "throw"
                    THEN [what |-> "effectThrew", fn |-> None]
                    ELSE [what |-> "nothing", fn |-> None]
               ELSE [what |-> IF last'.thrown THEN "cleanupThrew" ELSE "detached",
                     fn |-> IF ran = <<>> THEN None ELSE ran[1]]
    IN  trail' = [at |-> [trail.at EXCEPT ![key] = end], was |-> trail.at[key]]

\* The cleanups the effect has returned and those invoked, and whether so far
\* nothing threw and no cleanup was returned a second time.
\* second: the latest call is a detach that directly follows a detach under the
\* same key.
IdleOnce == [returned |-> {}, ran |-> {}, ok |-> TRUE, second |-> FALSE]

Once ==
    LET isFn == last'.kind = "attach" /\ last'.result \in Cleanups
    IN  once' = [returned |-> IF isFn THEN once.returned \cup {last'.result}
                              ELSE once.returned,
                 ran |-> once.ran \cup CleanupsInvoked(last'),
                 ok |-> /\ once.ok
                        /\ last'.threw = None
                        /\ ~(isFn /\ last'.result \in once.returned),
                 second |-> /\ last.kind = "detach"
                            /\ last'.kind = "detach"
                            /\ KeyOf(last.idArg) = KeyOf(last'.idArg)]

\* A well-behaved host: it attaches a node under a key only when none is
\* attached under it, detaches the nodes it attached, and its effects and
\* cleanups do not throw.  host[k]: the node attached under k and the cleanup
\* the effect returned for it.
NoNode == [node |-> None, fn |-> None]

HostAttach ==
    \E cb \in Handed, node \in Nodes, idArg \in NamedIds \cup {Omitted} :
        /\ host[KeyOf(idArg)] = NoNode
        /\ Call(cb, node, idArg)
        /\ last'.threw = None
        /\ host' = [host EXCEPT ![KeyOf(idArg)] =
                       [node |-> node,
                        fn |-> IF last'.result \in Cleanups THEN last'.result ELSE None]]

HostDetach(k) ==
    /\ host[k] /= NoNode
    /\ \E cb \in Handed, idArg \in NamedIds \cup {Omitted} :
          /\ KeyOf(idArg) = k
          /\ Call(cb, Null, idArg)
          /\ last'.threw = None
    /\ host' = [host EXCEPT ![k] = NoNode]

----------------------------------------------------------------------------
\* Specifications

\* The state after the first render: useRefCallback(effect, deps) has run once.
Init ==
    /\ cleanupsMap = [c \in {0} \cup Callbacks |-> EmptyMap]
    /\ \E e \in Effects, d \in DepLists :
          /\ memo = [cb |-> 1, deps |-> DepsArray(e, d)]
          /\ props = [effect |-> e, deps |-> d]
    /\ nextUid = 1
    /\ last = NoStep
    /\ pend = [k \in NamedIds |-> NoPend]
    /\ ranSince = [k \in NamedIds |-> FALSE]
    /\ owed = [k \in NamedIds |-> None]
    /\ consumed = NoPend
    /\ superseded = {}
    /\ dropped = {}
    /\ scenX = IdleX
    /\ scenDeps = IdleDeps
    /\ videoPend = None
    /\ trail = IdleTrail
    /\ once = IdleOnce
    /\ host = [k \in NamedIds |-> NoNode]

DoRender == \E e \in Effects, d \in DepLists : Render(e, d)
DoCall == \E cb \in Handed, node \in Nodes \cup {Null}, idArg \in NamedIds \cup {Omitted} :
              Call(cb, node, idArg)

\* The hook under a host that renders and calls the handed-out callbacks.
Next ==
    \/ DoRender /\ UNCHANGED <<hist, seqs, scenX, scenDeps, videoPend, more>>
    \/ DoCall /\ History /\ UNCHANGED <<seqs, scenX, scenDeps, videoPend, more>>

Spec == Init /\ [][Next]_vars

\* Calls of the callback, with the record of the cleanups a second attach replaced.
NextSeq ==
    DoCall /\ History /\ Supersedes /\ UNCHANGED <<scenX, scenDeps, videoPend, more>>

SpecSeq == Init /\ [][NextSeq]_vars

\* Calls of the callback, with the record of how the calls under each key ended.
NextErr ==
    DoCall /\ History /\ Trail
           /\ UNCHANGED <<seqs, scenX, scenDeps, videoPend, once, host>>

SpecErr == Init /\ [][NextErr]_vars

\* Renders and calls, with the record of the cleanups returned and invoked.
NextOnce ==
    \/ DoRender /\ UNCHANGED <<hist, seqs, scenX, scenDeps, videoPend, more>>
    \/ DoCall /\ Once
              /\ UNCHANGED <<hist, seqs, scenX, scenDeps, videoPend, trail, host>>

SpecOnce == Init /\ [][NextOnce]_vars

\* The hook under a well-behaved host, which detaches every node it attached.
HostDetaches(k) ==
    HostDetach(k) /\ UNCHANGED <<hist, seqs, scenX, scenDeps, videoPend, trail, once>>

NextHost ==
    \/ DoRender /\ UNCHANGED <<hist, seqs, scenX, scenDeps, videoPend, more>>
    \/ HostAttach /\ UNCHANGED <<hist, seqs, scenX, scenDeps, videoPend, trail, once>>
    \/ \E k \in NamedIds : HostDetaches(k)

\* The host detaches every node it attached: a detach that stays possible is done.
SpecHost ==
    /\ Init
    /\ [][NextHost]_vars
    /\ \A k \in NamedIds : WF_vars(HostDetaches(k))

\* Calls of the callback, followed through the three calls of the example.
NextX ==
    \E cb \in Handed, node \in Nodes \cup {Null}, idArg \in NamedIds \cup {Omitted} :
        /\ Call(cb, node, idArg)
        /\ ScenarioX(node, idArg)
        /\ UNCHANGED <<hist, seqs, scenDeps, videoPend, more>>

SpecX == Init /\ [][NextX]_vars

\* Single-node mode: renders, and calls that omit the id.
NextDeps ==
    \/ DoRender /\ ScenarioDepsRender /\ UNCHANGED <<hist, seqs, scenX, videoPend, more>>
    \/ \E cb \in Handed, node \in Nodes \cup {Null} :
          /\ Call(cb, node, Omitted)
          /\ ScenarioDepsCall(cb, node)
          /\ UNCHANGED <<hist, seqs, scenX, videoPend, more>>

SpecDeps == Init /\ [][NextDeps]_vars

\* The README's component: the host reaches the hook through the wrapper only.
NextReadme ==
    \/ DoRender /\ UNCHANGED <<hist, seqs, scenX, scenDeps, videoPend, more>>
    \/ \E cb \in Handed, node \in Nodes \cup {Null} :
          /\ WrappedRef(cb, node)
          /\ Video(node)
          /\ UNCHANGED <<hist, seqs, scenX, scenDeps, more>>

SpecReadme == Init /\ [][NextReadme]_vars

----------------------------------------------------------------------------
\* Claims

\* C1, as stated: when attach(node, id), whose effect returned c, is followed by
\* attach(null, id) with no other attach under id in between, that detach invokes
\* c exactly once, c was not invoked before it, and afterwards the registry holds
\* no entry for id.
C1_Original ==
    [][\A id \in NamedIds :
         (last'.kind = "detach" /\ KeyOf(last'.idArg) = id /\ pend[id].fn /= None)
         => /\ last'.invoked = RanCleanup(pend[id].fn)
            /\ ~ranSince[id]
            /\ Registry'[id] = None]_vars

\* C1, amended: the matching detach invokes c exactly once; between the attach
\* and that detach c is invoked by no call other than a detach of another
\* identifier under which the same function is registered; after the detach the
\* registry holds no entry for id when c returned normally, and still holds c
\* when c threw.
C1_Amended ==
    [][\A id \in NamedIds :
         pend[id].fn /= None =>
            LET c == pend[id].fn
                key == KeyOf(last'.idArg)
            IN  /\ (last'.kind = "detach" /\ key = id)
                   => /\ last'.invoked = RanCleanup(c)
                      /\ Registry'[id] = IF last'.thrown THEN c ELSE None
                /\ c \in CleanupsInvoked(last')
                   => /\ last'.kind = "detach"
                      /\ key = id \/ Registry[key] = c]_vars

\* C1's case: a detach has run the pending cleanup, which returned, and the entry
\* is gone.
C1_Witness ==
    /\ last.kind = "detach"
    /\ consumed.fn /= None
    /\ last.invoked = RanCleanup(consumed.fn)
    /\ ~last.thrown
    /\ Registry[KeyOf(last.idArg)] = None

\* C2, as stated: the registry holds an entry for K if and only if the effect
\* returned a cleanup the last time a node was attached under K and that cleanup
\* has not yet been invoked.
C2_Original ==
    \A K \in NamedIds :
        (Registry[K] /= None) <=> (pend[K].fn /= None /\ ~ranSince[K])

\* C2, amended: the registry holds an entry for K if and only if some attach
\* under K returned a cleanup and no attach(null, K) has returned normally since
\* the latest such attach; the entry is that attach's cleanup.
C2_Amended == \A K \in NamedIds : Registry[K] = owed[K]

\* C2's case: an entry is held although the latest attach under its key returned
\* no cleanup: the entry is the cleanup of the attach before it.
C2_Witness ==
    /\ last.kind = "attach"
    /\ ~last.thrown
    /\ last.result \notin Cleanups
    /\ Registry[KeyOf(last.idArg)] /= None
    /\ Registry[KeyOf(last.idArg)] = owed[KeyOf(last.idArg)]

\* C3, as stated: when attach(n1, id), whose effect returned c1, is followed by
\* attach(n2, id) with no detach of id in between, the entry for id is overwritten
\* by the second attach, which does not invoke c1, and no later operation invokes
\* c1.
C3_Original ==
    [][LET key == KeyOf(last'.idArg)
       IN  /\ (last'.kind = "attach" /\ pend[key].fn /= None)
              => /\ Registry'[key] = last'.result
                 /\ pend[key].fn \notin CleanupsInvoked(last')
           /\ \A c \in superseded : c \notin CleanupsInvoked(last')]_vars

\* C3, amended: when the second attach's effect returns a cleanup c2, the entry
\* for id is overwritten with c2 and the second attach invokes no cleanup; when
\* c2 is another function than c1 and c1 is registered under no other
\* identifier, no later operation invokes c1 until the effect returns c1 again.
\* When the second attach's effect returns no function, or throws, the entry is
\* not overwritten: c1 stays registered under id, and is not invoked by that
\* attach.
C3_Amended ==
    [][LET key == KeyOf(last'.idArg)
       IN  /\ (last'.kind = "attach" /\ pend[key].fn /= None /\ last'.result \in Cleanups)
              => /\ Registry'[key] = last'.result
                 /\ CleanupsInvoked(last') = {}
           /\ (last'.kind = "attach" /\ pend[key].fn /= None /\ last'.result \notin Cleanups)
              => /\ Registry'[key] = pend[key].fn
                 /\ CleanupsInvoked(last') = {}
           /\ \A c \in dropped : c \notin CleanupsInvoked(last')]_vars

\* C3's case: a cleanup has been replaced and a later detach has run the one that
\* replaced it.
C3_Witness ==
    /\ dropped /= {}
    /\ last.kind = "detach"
    /\ last.invoked /= <<>>
    /\ consumed.fn \notin dropped

\* C4, as stated: attach(nodeA, "x"), attach(nodeB, "x"), attach(null, "x") from
\* an empty registry ends with no cleanup run.
C4_Original == scenX.phase = 3 => scenX.log = <<>>

\* C4, amended: the three calls end with exactly one cleanup run, the one the
\* effect returned for nodeB; the one returned for nodeA has not run.
C4_Amended == scenX.phase = 3 => scenX.log = <<scenX.cB>>

\* C4's case: the three calls are done, the two attaches having returned
\* different functions.
C4_Witness == scenX.phase = 3 /\ scenX.cA /= scenX.cB /\ scenX.cA \in Cleanups

\* C5: attach(null, id) for an id without a registry entry returns normally,
\* invokes neither the effect nor a cleanup and leaves the registry unchanged.
C5_DetachWithoutEntry ==
    [][(last'.kind = "detach" /\ Registry[KeyOf(last'.idArg)] = None)
       => /\ ~last'.thrown
          /\ last'.invoked = <<>>
          /\ cleanupsMap' = cleanupsMap]_vars

\* C5's case: a detach under a key that holds no entry has returned.
C5_Witness ==
    /\ last.kind = "detach"
    /\ last.invoked = <<>>
    /\ ~last.thrown
    /\ \A k \in NamedIds : Registry[k] = None

\* C6, as stated: a render whose dependency list equals the previous render's,
\* element by element, hands out the previous callback identity, whatever else
\* changed, the effect reference included.
C6_Original ==
    (last.kind = "render" /\ last.prevProps.deps = props.deps) => memo.cb = last.prevCb

\* C6, amended: a render whose dependency list and effect reference both equal
\* the previous render's hands out the previous callback identity.
C6_Amended ==
    (last.kind = "render" /\ last.prevProps = props) => memo.cb = last.prevCb

\* C6's case: a render with the same effect and dependencies has been done.
C6_Witness ==
    last.kind = "render" /\ last.prevProps = props /\ memo.cb = last.prevCb

\* C7: a render whose effect reference or dependency list differs from the
\* previous render's hands out an identity different from every earlier one.
C7_NewIdentity ==
    (last.kind = "render" /\ last.prevProps /= props)
    => memo.cb \notin 1..last.prevCb

\* C7's case: a render that changed the effect reference only.
C7_Witness ==
    /\ last.kind = "render"
    /\ last.prevProps.effect /= props.effect
    /\ last.prevProps.deps = props.deps
    /\ memo.cb = last.prevCb + 1

\* C8, as stated: in single-node mode, when the dependencies change under an
\* attached node with cleanup c pending and the host calls the old identity with
\* null and the new one with the node, c is invoked exactly once, before the new
\* effect, and afterwards the registry holds exactly what the new effect returned.
C8_Original ==
    scenDeps.phase = 4
    => /\ scenDeps.log = RanCleanup(scenDeps.c) \o RanEffect(scenDeps.node)
       /\ Registry["single"] =
             IF scenDeps.result \in Cleanups THEN scenDeps.result ELSE None

\* C8, amended: c is invoked exactly once, before the new effect; afterwards the
\* registry holds the cleanup the new effect returned, or, when it returned none,
\* no entry if c returned normally and still c if c threw.  A detach through any
\* callback identity runs the cleanup pending under "single", whichever identity
\* registered it.
C8_Amended ==
    /\ scenDeps.phase = 4
       => /\ scenDeps.log = RanCleanup(scenDeps.c) \o RanEffect(scenDeps.node)
          /\ Registry["single"] =
                IF scenDeps.result \in Cleanups THEN scenDeps.result
                ELSE IF scenDeps.thrown THEN scenDeps.c ELSE None
    /\ (last.kind = "detach" /\ scenDeps.took /= None)
       => last.invoked = RanCleanup(scenDeps.took)

\* C8's case: the old identity has been called with null, c returning normally,
\* and the new identity with the node.
C8_Witness ==
    /\ scenDeps.phase = 4
    /\ ~scenDeps.thrown
    /\ scenDeps.tookBy = 0
    /\ last.kind = "attach"

\* A detach through another identity than the one that registered the cleanup.
C8_CrossIdentity ==
    /\ last.kind = "detach"
    /\ scenDeps.took /= None
    /\ scenDeps.tookBy /= scenDeps.tookCb

\* C9: a call that omits the id reads and writes the entry under "single": an
\* attach that omits it stores the cleanup there, and a detach that omits it or
\* passes "single" invokes the cleanup pending there.
C9_SingleKey ==
    /\ (last.kind = "detach" /\ last.idArg \in {Omitted, "single"} /\ consumed.fn /= None)
       => last.invoked = RanCleanup(consumed.fn)
    /\ (last.kind = "attach" /\ last.idArg = Omitted /\ last.result \in Cleanups)
       => Registry["single"] = last.result

\* C9's case: a node attached without an id has been detached with "single".
C9_Witness ==
    /\ last.kind = "detach"
    /\ last.idArg = "single"
    /\ consumed.idArg = Omitted
    /\ consumed.fn /= None
    /\ last.invoked = RanCleanup(consumed.fn)

\* C10: in the README's usage, where the wrapper passes uid() on every call,
\* detaching a node that was attached with a cleanup runs that cleanup.
C10_WrappedDetachRuns ==
    [][(last'.kind = "detach" /\ last'.wrapped /\ videoPend /= None)
       => videoPend \in CleanupsInvoked(last')]_vars

\* C11: an exception thrown by the effect during an attach, or by the stored
\* cleanup during a detach, is what leaves that call: the call does not return
\* normally and the exception is not replaced.
C11_ThrowPropagates ==
    /\ (last.kind = "attach" /\ last.result = "throw")
       => last.thrown /\ last.escaped = EffectError
    /\ (last.kind = "detach" /\ last.threw /= None)
       => last.thrown /\ last.escaped = last.threw /\ last.invoked /= <<>>
    /\ last.thrown => last.threw /= None

\* C11's case: the stored cleanup threw during a detach and the call threw it.
C11_Witness ==
    /\ last.kind = "detach"
    /\ last.invoked /= <<>>
    /\ last.threw = CleanupError
    /\ last.escaped = CleanupError

\* The cleanup a detach under key must find, by what the caller has seen: the
\* one owed under the key, if any.
OwedRun(key) == IF owed[key] /= None THEN RanCleanup(owed[key]) ELSE <<>>

\* C12: an attach whose effect returns no function leaves the registry as it
\* was: no entry is created, an entry stored under the id stays, and the next
\* detach under the id invokes that entry.
C12_NothingReturned ==
    [][LET key == KeyOf(last'.idArg)
       IN  /\ (last'.kind = "attach" /\ last'.result \in {"undefined", "other"})
              => /\ cleanupsMap' = cleanupsMap
                 /\ ~last'.thrown
           /\ (last'.kind = "detach" /\ trail.at[key].what = "nothing")
              => last'.invoked = OwedRun(key)]_vars

\* C12's case: a detach has invoked the cleanup of an earlier attach, the call
\* before it under the key being an attach whose effect returned no function.
C12_Witness ==
    /\ last.kind = "detach"
    /\ trail.was.what = "nothing"
    /\ last.invoked /= <<>>

\* C13: when the stored cleanup throws during a detach, the entry stays in the
\* registry, and a later detach under the id invokes the same cleanup again.
C13_ThrowingCleanupStays ==
    [][LET key == KeyOf(last'.idArg)
       IN  /\ (last'.kind = "detach" /\ last'.threw = CleanupError)
              => /\ last'.invoked = RanCleanup(Registry'[key])
                 /\ cleanupsMap' = cleanupsMap
           /\ (last'.kind = "detach" /\ trail.at[key].what = "cleanupThrew")
              => last'.invoked = RanCleanup(trail.at[key].fn)]_vars

\* C13's case: a detach has invoked a cleanup that the detach before it under
\* the key had invoked, and which had thrown.
C13_Witness ==
    /\ last.kind = "detach"
    /\ trail.was.what = "cleanupThrew"
    /\ last.invoked = RanCleanup(trail.was.fn)
    /\ ~last.thrown

\* C14: when the effect throws during an attach, the registry is left as it was
\* before the call, and a cleanup pending under the id is invoked by the next
\* detach under it.
C14_ThrowingEffect ==
    [][LET key == KeyOf(last'.idArg)
       IN  /\ (last'.kind = "attach" /\ last'.threw = EffectError)
              => cleanupsMap' = cleanupsMap
           /\ (last'.kind = "detach" /\ trail.at[key].what = "effectThrew")
              => last'.invoked = OwedRun(key)]_vars

\* C14's case: a detach has invoked the pending cleanup, the call before it
\* under the key being an attach whose effect threw.
C14_Witness ==
    /\ last.kind = "detach"
    /\ trail.was.what = "effectThrew"
    /\ last.invoked /= <<>>

\* C15: a call under identifier K leaves the entry of every other identifier
\* as it was and invokes no cleanup but the one owed under K; a detach of a
\* node attached with a cleanup runs that cleanup exactly once, whatever was
\* attached or detached under other identifiers in between.
C15_OtherIdsUntouched ==
    [][last'.kind \in {"attach", "detach"} =>
         LET K == KeyOf(last'.idArg)
         IN  /\ \A k \in Ids \ {K} : Registry'[k] = Registry[k]
             /\ CleanupsInvoked(last') \subseteq {owed[K]}
             /\ (last'.kind = "detach" /\ pend[K].fn /= None)
                => last'.invoked = RanCleanup(pend[K].fn)]_vars

\* C15's case: a node has been detached and its cleanup run, while a node
\* attached under another identifier, with another cleanup, is still attached,
\* its entry in place.
C15_Witness ==
    /\ last.kind = "detach"
    /\ consumed.fn /= None
    /\ last.invoked = RanCleanup(consumed.fn)
    /\ \E k \in NamedIds \ {KeyOf(last.idArg)} :
          /\ pend[k].fn \in Cleanups \ {consumed.fn}
          /\ ~ranSince[k]
          /\ Registry[k] = pend[k].fn

\* C16: as long as no effect and no cleanup has thrown and no cleanup has been
\* returned by two attaches, no cleanup is invoked a second time; and a detach
\* that directly follows a detach under the same identifier invokes nothing and
\* leaves the registry as it is.
C16_AtMostOnce ==
    [][once'.ok =>
         /\ CleanupsInvoked(last') \cap once.ran = {}
         /\ Len(last'.invoked) <= 1
         /\ once'.second => (last'.invoked = <<>> /\ cleanupsMap' = cleanupsMap)]_vars

\* C16's case: every cleanup has been returned once and invoked, nothing threw,
\* and a second detach under the same identifier has done nothing.
C16_Witness ==
    /\ once.ok
    /\ once.second
    /\ once.ran = Cleanups
    /\ last.invoked = <<>>

\* C17: an attach with a node invokes the effect exactly once, with that node,
\* and invokes no cleanup, whether or not an entry is stored under the id; a
\* detach does not invoke the effect.
C17_EffectOncePerAttach ==
    /\ last.kind = "attach"
       => /\ last.node \in Nodes
          /\ last.invoked = RanEffect(last.node)
    /\ last.kind = "detach"
       => \A i \in 1..Len(last.invoked) : last.invoked[i].op /= "effect"

\* C17's case: a node has been attached under an id whose earlier attach had
\* left a cleanup pending.
C17_Witness ==
    /\ last.kind = "attach"
    /\ last.node = "nodeB"
    /\ consumed.fn /= None
    /\ last.invoked = RanEffect("nodeB")

\* C18: under a well-behaved host every cleanup the effect returned is
\* eventually invoked, by the detach of the node it was returned for, and
\* whenever no node is attached the registry is empty.
C18_WellBehavedHost ==
    /\ []((\A k \in NamedIds : host[k] = NoNode) => (\A i \in Ids : Registry[i] = None))
    /\ \A k \in NamedIds, c \in Cleanups :
          (host[k].fn = c)
             ~> (/\ last.kind = "detach"
                 /\ KeyOf(last.idArg) = k
                 /\ last.invoked = RanCleanup(c))

\* C18's case: after a change of the callback identity, the host has detached
\* the last attached node, its cleanup has run and the registry is empty.
C18_Witness ==
    /\ last.kind = "detach"
    /\ last.invoked /= <<>>
    /\ memo.cb > 1
    /\ \A k \in NamedIds : host[k] = NoNode
    /\ \A i \in Ids : Registry[i] = None

====
